---- MODULE Spec2Model ----
(***************************************************************************)
(* jc: JSON to CSV/TSV conversion (src/src/main.rs).                       *)
(*                                                                         *)
(* Text is modelled as a sequence of one-character strings, so that        *)
(* quoting, separators and newlines are positions in the written output.   *)
(* The input byte stream is modelled after tokenisation into top-level      *)
(* JSON documents: `docs` is the sequence of documents the bytes hold, a   *)
(* document that does not parse being the value Malformed.                  *)
(* Write failures of the output stream (I/O errors) are not modelled.      *)
(***************************************************************************)
EXTENDS Integers, Sequences, FiniteSets, TLC

VARIABLES matches, args, docs, pc, elements, pos, out, err

vars == <<matches, args, docs, pc, elements, pos, out, err>>

\* ------------------------------------------------------------- bounds
\* longest stream of top-level values (array elements or concatenated docs)
MaxStream == 2
\* longest column list
MaxCols == 2
\* longest string field value
MaxStrLen == 2

\* ------------------------------------------------------------- characters
Q == "\""
NL == "\n"
Comma == ","
Semi == ";"

\* characters string field values are drawn from: a plain letter, the double
\* quote and the two separators
Alphabet == {"x", Q, Comma, Semi}

\* separators the runs are configured with (-s/--sep, default ",")
Separators == {<<Comma>>, <<Semi>>}

\* column names (-c/--columns) and the keys objects may hold
A == <<"a">>
B == <<"b">>
Names == {A, B}

\* ------------------------------------------------------------- JSON values
\* serde_json::Value as held by an object's field: a tagged variant. Nested
\* arrays and objects are the empty ones.  Absent marks a key the object's
\* map does not hold.
FNull == [t |-> "Null", b |-> FALSE, n |-> 0, s |-> <<>>]
FBool(b) == [t |-> "Bool", b |-> b, n |-> 0, s |-> <<>>]
FNumber(n) == [t |-> "Number", b |-> FALSE, n |-> n, s |-> <<>>]
FString(s) == [t |-> "String", b |-> FALSE, n |-> 0, s |-> s]
FArray == [t |-> "Array", b |-> FALSE, n |-> 0, s |-> <<>>]
FObject == [t |-> "Object", b |-> FALSE, n |-> 0, s |-> <<>>]
Absent == [t |-> "Absent", b |-> FALSE, n |-> 0, s |-> <<>>]

NoFields == [c \in Names |-> Absent]

\* a top-level value: the same variant, an Object carrying its key/value map
\* `f` and an Array its elements `kids`
TopOf(v) == [t |-> v.t, b |-> v.b, n |-> v.n, s |-> v.s, f |-> NoFields, kids |-> <<>>]
JObject(f) == [t |-> "Object", b |-> FALSE, n |-> 0, s |-> <<>>, f |-> f, kids |-> <<>>]
JArray(kids) == [t |-> "Array", b |-> FALSE, n |-> 0, s |-> <<>>, f |-> NoFields, kids |-> kids]
\* bytes that are not valid JSON
Malformed == [t |-> "Malformed", b |-> FALSE, n |-> 0, s |-> <<>>, f |-> NoFields, kids |-> <<>>]

\* ------------------------------------------------------------- text helpers
SeqsUpTo(S, n) == UNION {[1..k -> S] : k \in 0..n}

RECURSIVE Flatten(_)
Flatten(ss) == IF ss = <<>> THEN <<>> ELSE Head(ss) \o Flatten(Tail(ss))

Digit(d) == <<"0", "1", "2", "3", "4", "5", "6", "7", "8", "9">>[d + 1]

RECURSIVE NatText(_)
NatText(n) == IF n < 10 THEN <<Digit(n)>> ELSE NatText(n \div 10) \o <<Digit(n % 10)>>

\* Display of serde_json::Number for an integer: decimal text, no decimal point
NumberDisplay(n) == IF n < 0 THEN <<"-">> \o NatText(-n) ELSE NatText(n)

\* Display of bool
BoolDisplay(b) == IF b THEN <<"t", "r", "u", "e">> ELSE <<"f", "a", "l", "s", "e">>

\* a replace that leaves the quotes as they are
ReplaceQuotes_none(s) == s

\* str::replace("\"", "\"\""): every double quote becomes two
RECURSIVE ReplaceQuotes(_)
ReplaceQuotes(s) ==
  IF s = <<>> THEN <<>>
  ELSE (IF Head(s) = Q THEN <<Q, Q>> ELSE <<Head(s)>>) \o ReplaceQuotes(Tail(s))

\* Display of serde_json::Value (compact JSON) for a field value
DisplayString(s) ==
  <<Q>> \o Flatten([i \in 1..Len(s) |-> IF s[i] = Q THEN <<"\\", Q>> ELSE <<s[i]>>]) \o <<Q>>

DisplayField(v) ==
  CASE v.t = "Null" -> <<"n", "u", "l", "l">>
    [] v.t = "Bool" -> BoolDisplay(v.b)
    [] v.t = "Number" -> NumberDisplay(v.n)
    [] v.t = "String" -> DisplayString(v.s)
    [] v.t = "Array" -> <<"[", "]">>
    [] v.t = "Object" -> <<"{", "}">>

\* keys of an object's map in the map's (sorted) order
KeyOrder == <<A, B>>

RECURSIVE JoinWith(_, _)
JoinWith(ss, sep) ==
  IF ss = <<>> THEN <<>>
  ELSE IF Len(ss) = 1 THEN ss[1]
  ELSE ss[1] \o sep \o JoinWith(Tail(ss), sep)

DisplayEntries(f) ==
  LET present == SelectSeq(KeyOrder, LAMBDA k : f[k].t # "Absent")
  IN  JoinWith([i \in 1..Len(present) |->
                  DisplayString(present[i]) \o <<":">> \o DisplayField(f[present[i]])],
               <<Comma>>)

\* Display of a value handed to print_line (an array element or a document)
DisplayElement(e) ==
  IF e.t = "Object" THEN <<"{">> \o DisplayEntries(e.f) \o <<"}">>
  ELSE DisplayField(e)

Display(e) ==
  IF e.t = "Array"
  THEN <<"[">> \o JoinWith([i \in 1..Len(e.kids) |-> DisplayElement(e.kids[i])], <<Comma>>) \o <<"]">>
  ELSE DisplayElement(e)

\* ------------------------------------------------------------- errors
\* failure::Error as the run returns it: the message's fixed part and the
\* formatted argument
NoErr == [kind |-> "none", text |-> <<>>]
FormatErr(kind, text) == [kind |-> kind, text |-> text]
\* serde_json's error (invalid JSON, trailing characters, EOF)
ParseErr == [kind |-> "parse", text |-> <<>>]

\* ------------------------------------------------------------- configuration
\* the command line as clap matched it
Columns == SeqsUpTo(Names, MaxCols) \ {<<>>}

Matches ==
  [RAW : BOOLEAN, NO_HEADERS : BOOLEAN, NO_ROOT : BOOLEAN, SEP : Separators, COLUMNS : Columns]

\* JCArgs::from_matches
from_matches(m) ==
  [columns |-> m.COLUMNS,
   raw |-> m.RAW,
   separator |-> m.SEP,
   show_headers |-> ~m.NO_HEADERS,
   no_root |-> m.NO_ROOT]

\* ------------------------------------------------------------- row projector
\* a lookup that takes a missing key for an unsupported value
Index_strict(object, col) ==
  IF col \in DOMAIN object.f /\ object.f[col].t # "Absent" THEN object.f[col] ELSE FObject

\* &object[col]: serde_json's Index yields Null for a key the map lacks
Index(object, col) ==
  IF col \in DOMAIN object.f /\ object.f[col].t # "Absent" THEN object.f[col] ELSE FNull

\* what one column's match arm writes (lines 63-76)
write_field(v, a) ==
  CASE v.t = "String" -> IF a.raw THEN v.s ELSE <<Q>> \o ReplaceQuotes(v.s) \o <<Q>>
    [] v.t = "Bool" -> BoolDisplay(v.b)
    [] v.t = "Number" -> NumberDisplay(v.n)
    [] v.t = "Null" -> <<>>

\* a separator after every column, the last included
write_separator_always(i, a) == a.separator

\* the separator written after column i (1-based): all but the last
write_separator(i, a) == IF i # Len(a.columns) THEN a.separator ELSE <<>>

\* the loop over the columns from column i on, `acc` being what the row has
\* written so far; every write goes to the stream as it is made
RECURSIVE print_columns(_, _, _, _)
print_columns(object, a, i, acc) ==
  IF i > Len(a.columns) THEN [out |-> acc \o <<NL>>, err |-> NoErr]
  ELSE LET v == Index(object, a.columns[i])
       IN  IF v.t \in {"Array", "Object"}
           THEN [out |-> acc, err |-> FormatErr("invalid column", DisplayField(v))]
           ELSE print_columns(object, a, i + 1, acc \o write_field(v, a) \o write_separator(i, a))

\* a print_line that skips a value that is not an Object
print_line_skip(element, a) ==
  IF element.t = "Object" THEN print_columns(element, a, 1, <<>>)
  ELSE [out |-> <<>>, err |-> NoErr]

\* a print_line that builds the line in memory and writes it when complete
print_line_buffered(element, a) ==
  IF element.t = "Object"
  THEN LET r == print_columns(element, a, 1, <<>>)
       IN  [out |-> IF r.err = NoErr THEN r.out ELSE <<>>, err |-> r.err]
  ELSE [out |-> <<>>, err |-> FormatErr("invalid json object", Display(element))]

\* print_line: what it writes and what it returns
print_line(element, a) ==
  IF element.t = "Object" THEN print_columns(element, a, 1, <<>>)
  ELSE [out |-> <<>>, err |-> FormatErr("invalid json object", Display(element))]

\* a print_header that does not read show_headers
print_header_always(a) ==
  Flatten([i \in 1..Len(a.columns) |-> a.columns[i] \o write_separator(i, a)]) \o <<NL>>

\* print_header: what it writes
print_header(a) ==
  IF a.show_headers
  THEN Flatten([i \in 1..Len(a.columns) |-> a.columns[i] \o write_separator(i, a)]) \o <<NL>>
  ELSE <<>>

\* ------------------------------------------------------------- value decoder
\* serde_json::from_reader: the whole stream must hold exactly one document
from_reader(ds) ==
  IF Len(ds) # 1 \/ ds[1].t = "Malformed"
  THEN [err |-> ParseErr, value |-> Malformed]
  ELSE [err |-> NoErr, value |-> ds[1]]

\* a decoder that parses the whole stream before it yields the first value
stream_next_eager(ds, n) ==
  IF \E i \in 1..Len(ds) : ds[i].t = "Malformed"
  THEN [err |-> ParseErr, value |-> Malformed]
  ELSE [err |-> NoErr, value |-> ds[n + 1]]

\* StreamDeserializer::next for the value after the first `n`: the next
\* document as soon as it is complete, an error if it is malformed
stream_next(ds, n) ==
  IF ds[n + 1].t = "Malformed"
  THEN [err |-> ParseErr, value |-> Malformed]
  ELSE [err |-> NoErr, value |-> ds[n + 1]]

\* ------------------------------------------------------------- run
\* the no-root branch up to its loop: the lazy iterator, then the header
run_no_root(a, ds) ==
  [elements |-> ds, out |-> print_header(a), err |-> NoErr, pc |-> "loop"]

\* a single-document branch that writes the header before it looks at the root
run_single_header_first(a, ds) ==
  LET r == from_reader(ds)
  IN  IF r.err # NoErr
      THEN [elements |-> <<>>, out |-> <<>>, err |-> r.err, pc |-> "done"]
      ELSE IF r.value.t = "Array"
      THEN [elements |-> r.value.kids, out |-> print_header(a), err |-> NoErr, pc |-> "loop"]
      ELSE [elements |-> <<>>, out |-> print_header(a),
            err |-> FormatErr("root object is not an array", <<>>), pc |-> "done"]

\* the single-document branch up to its iteration: parse, match on the root
run_single(a, ds) ==
  LET r == from_reader(ds)
  IN  IF r.err # NoErr
      THEN [elements |-> <<>>, out |-> <<>>, err |-> r.err, pc |-> "done"]
      ELSE IF r.value.t = "Array"
      THEN [elements |-> r.value.kids, out |-> print_header(a), err |-> NoErr, pc |-> "loop"]
      ELSE [elements |-> <<>>, out |-> <<>>,
            err |-> FormatErr("root object is not an array", <<>>), pc |-> "done"]

\* one turn of the loop over the elements: pull the next value, print its line
loop_step(a, els, n) ==
  LET r == IF a.no_root THEN stream_next(els, n) ELSE [err |-> NoErr, value |-> els[n + 1]]
  IN  IF r.err # NoErr
      THEN [out |-> <<>>, err |-> r.err]
      ELSE print_line(r.value, a)

\* ------------------------------------------------------------- inputs
Strings == SeqsUpTo(Alphabet, MaxStrLen)

\* objects of one record with every kind of value in field "a"
RichA ==
  {Absent, FNull, FBool(TRUE), FBool(FALSE), FNumber(12), FNumber(-5), FArray, FObject}
    \cup {FString(s) : s \in Strings}
RichB == {Absent, FNull, FNumber(12), FString(<<"x">>), FArray}
RichObjects == {JObject([c \in Names |-> IF c = A THEN va ELSE vb]) : va \in RichA, vb \in RichB}

\* the values streams of several records are built from
O1 == JObject([c \in Names |-> IF c = A THEN FString(<<"x">>) ELSE FNumber(12)])
O2 == JObject([c \in Names |-> IF c = A THEN FArray ELSE FNumber(12)])
O3 == JObject([c \in Names |-> IF c = A THEN FString(<<"x">>) ELSE Absent])
StreamValues == {O1, O2, O3, TopOf(FNumber(12)), JArray(<<>>)}

\* the documents of the input: concatenated values, malformed bytes among
\* them, or one array of values
Inputs ==
  SeqsUpTo(StreamValues \cup {Malformed}, MaxStream)
    \cup {<<JArray(els)>> : els \in SeqsUpTo(StreamValues, MaxStream)}
    \cup {<<o>> : o \in RichObjects}
    \cup {<<JArray(<<o>>)>> : o \in RichObjects}

\* ------------------------------------------------------------- state machine
Init ==
  /\ matches \in Matches
  /\ args = from_matches(matches)
  /\ docs \in Inputs
  /\ pc = "run"
  /\ elements = <<>>
  /\ pos = 0
  /\ out = <<>>
  /\ err = NoErr

\* run, lines 112-114
RunNoRoot ==
  /\ pc = "run"
  /\ args.no_root
  /\ LET r == run_no_root(args, docs)
     IN  /\ elements' = r.elements
         /\ out' = out \o r.out
         /\ err' = r.err
         /\ pc' = r.pc
  /\ UNCHANGED <<matches, args, docs, pos>>

\* run, lines 121-126
RunSingle ==
  /\ pc = "run"
  /\ ~args.no_root
  /\ LET r == run_single(args, docs)
     IN  /\ elements' = r.elements
         /\ out' = out \o r.out
         /\ err' = r.err
         /\ pc' = r.pc
  /\ UNCHANGED <<matches, args, docs, pos>>

\* run, lines 115-118 and 124: the next element; `?` returns at the first error
PrintLine ==
  /\ pc = "loop"
  /\ pos < Len(elements)
  /\ LET r == loop_step(args, elements, pos)
     IN  /\ out' = out \o r.out
         /\ err' = r.err
         /\ pos' = IF r.err = NoErr THEN pos + 1 ELSE pos
         /\ pc' = IF r.err = NoErr THEN "loop" ELSE "done"
  /\ UNCHANGED <<matches, args, docs, elements>>

\* run, lines 119 and 124: the elements are exhausted, Ok(())
Finish ==
  /\ pc = "loop"
  /\ pos = Len(elements)
  /\ pc' = "done"
  /\ UNCHANGED <<matches, args, docs, elements, pos, out, err>>

Next == RunNoRoot \/ RunSingle \/ PrintLine \/ Finish

Spec == Init /\ [][Next]_vars

\* ------------------------------------------------------------- what the claims speak of
\* The reader's side of the format, written without the writer's operators.

\* the values the decoder hands over, when the input decodes in the run's mode
Decodable ==
  IF args.no_root THEN \A i \in 1..Len(docs) : docs[i].t # "Malformed"
  ELSE Len(docs) = 1 /\ docs[1].t = "Array"

Values == IF args.no_root THEN docs ELSE docs[1].kids

\* whether the run's mode gets at a sequence of values at all
HasValues == args.no_root \/ (Len(docs) = 1 /\ docs[1].t = "Array")

NCols == Len(args.columns)

\* the field of value e that column k projects: a value, or Absent
FieldOf(e, k) == e.f[args.columns[k]]

IsScalar(v) == v.t \in {"String", "Bool", "Number", "Null", "Absent"}

\* an Object whose projected fields are all scalar (or absent)
ValidRecord(e) == e.t = "Object" /\ \A k \in 1..NCols : IsScalar(FieldOf(e, k))

\* the JSON-decoded scalar as text; empty for null and for an absent field
ScalarText(v) ==
  CASE v.t = "String" -> v.s
    [] v.t = "Bool" -> BoolDisplay(v.b)
    [] v.t = "Number" -> NumberDisplay(v.n)
    [] OTHER -> <<>>

CountQ(s) == Cardinality({i \in 1..Len(s) : s[i] = Q})

\* CSV quoting: the string between quotes, each embedded quote twice
Quoted(s) ==
  [i \in 1..(Len(s) + CountQ(s) + 2) |->
     IF i = 1 \/ i = Len(s) + CountQ(s) + 2 THEN Q
     ELSE LET j == CHOOSE j \in 1..Len(s) :
                     /\ j + CountQ(SubSeq(s, 1, j - 1)) < i
                     /\ i <= j + CountQ(SubSeq(s, 1, j)) + 1
          IN  s[j]]

\* the field a reader expects for a scalar
ExpectedField(v) ==
  IF v.t = "String" /\ ~args.raw THEN Quoted(v.s) ELSE ScalarText(v)

\* the record line a reader expects for a valid record
ExpectedRow(e) ==
  JoinWith([k \in 1..NCols |-> ExpectedField(FieldOf(e, k))], args.separator) \o <<NL>>

ExpectedRows(n) == Flatten([i \in 1..n |-> ExpectedRow(Values[i])])

\* the header line: the column names joined by the separator
HeaderLine == JoinWith(args.columns, args.separator) \o <<NL>>

ExpectedHeader == IF args.show_headers THEN HeaderLine ELSE <<>>

\* the first column of e whose value is nested (NCols + 1 if none)
FirstNested(e) ==
  LET bad == {k \in 1..NCols : ~IsScalar(FieldOf(e, k))}
  IN  IF bad = {} THEN NCols + 1 ELSE CHOOSE k \in bad : \A j \in bad : k <= j

\* the fields before column k, each followed by the separator
PartialRow(e, k) ==
  Flatten([j \in 1..(k - 1) |-> ExpectedField(FieldOf(e, j)) \o args.separator])

\* the first value that is not P (Len + 1 if all are)
FirstNonObject ==
  LET bad == {i \in 1..Len(Values) : Values[i].t # "Object"}
  IN  IF bad = {} THEN Len(Values) + 1 ELSE CHOOSE i \in bad : \A j \in bad : i <= j

FirstInvalid ==
  LET bad == {i \in 1..Len(Values) : ~ValidRecord(Values[i])}
  IN  IF bad = {} THEN Len(Values) + 1 ELSE CHOOSE i \in bad : \A j \in bad : i <= j

Contains(s, sub) ==
  \E i \in 1..(Len(s) - Len(sub) + 1) : SubSeq(s, i, i + Len(sub) - 1) = sub

\* naive split of a line on the separator
RECURSIVE Split(_, _)
Split(s, sep) ==
  IF ~Contains(s, sep) THEN <<s>>
  ELSE LET i == CHOOSE i \in 1..(Len(s) - Len(sep) + 1) :
                  /\ SubSeq(s, i, i + Len(sep) - 1) = sep
                  /\ \A j \in 1..(i - 1) : SubSeq(s, j, j + Len(sep) - 1) # sep
       IN  <<SubSeq(s, 1, i - 1)>> \o Split(SubSeq(s, i + Len(sep), Len(s)), sep)

\* naive CSV unquoting: strip the outer quotes, then every doubled quote is one
RECURSIVE Undouble(_)
Undouble(s) ==
  IF s = <<>> THEN <<>>
  ELSE IF Len(s) >= 2 /\ s[1] = Q /\ s[2] = Q THEN <<Q>> \o Undouble(SubSeq(s, 3, Len(s)))
  ELSE <<s[1]>> \o Undouble(Tail(s))

Unquote(f) ==
  IF Len(f) >= 2 /\ f[1] = Q /\ f[Len(f)] = Q THEN Undouble(SubSeq(f, 2, Len(f) - 1)) ELSE f

\* the step about to be taken prints the line of this element
AtElement == pc = "loop" /\ pos < Len(elements)
Cur == elements[pos + 1]
\* what a step appends to the output
Appended == SubSeq(out', Len(out) + 1, Len(out'))

\* ------------------------------------------------------------- claims

\* no String the record projects holds the separator or a line break, nor,
\* in raw mode, a double quote
SplitSafe(e) ==
  \A k \in 1..NCols :
    FieldOf(e, k).t = "String" =>
      /\ ~Contains(FieldOf(e, k).s, args.separator)
      /\ \A i \in 1..Len(FieldOf(e, k).s) : FieldOf(e, k).s[i] # NL
      /\ args.raw => CountQ(FieldOf(e, k).s) = 0

\* the line a step appended splits into the |C| scalars of the record
SplitsBack(e, line) ==
  /\ line # <<>>
  /\ line[Len(line)] = NL
  /\ LET fs == Split(SubSeq(line, 1, Len(line) - 1), args.separator)
     IN  /\ Len(fs) = NCols
         /\ \A k \in 1..NCols : k <= Len(fs) => Unquote(fs[k]) = ScalarText(FieldOf(e, k))

C2_StopsAtFirstNonObject ==
  (pc = "done" /\ Decodable) =>
    /\ pos = FirstNonObject - 1
    /\ (\A i \in 1..Len(Values) : ValidRecord(Values[i])) => err = NoErr
    /\ (\E i \in 1..Len(Values) : ~ValidRecord(Values[i])) => err.kind = "invalid json object"

\* C2 as amended: the record lines written are those of the values before the
\* first value that is not an Object with scalar projected fields, in input
\* order; the run succeeds if there is no such value and otherwise fails at
\* it, with no later value producing a line.
C2_StopsAtFirstInvalid ==
  /\ (pc = "loop" /\ Decodable) =>
       /\ pos < FirstInvalid
       /\ out = ExpectedHeader \o ExpectedRows(pos)
  /\ (pc = "done" /\ Decodable) =>
       /\ pos = FirstInvalid - 1
       /\ (FirstInvalid > Len(Values)) <=> (err = NoErr)
       /\ FirstInvalid <= Len(Values) =>
            /\ err.kind = IF Values[FirstInvalid].t = "Object" THEN "invalid column"
                          ELSE "invalid json object"
            /\ out = ExpectedHeader \o ExpectedRows(pos)
                       \o (IF Values[FirstInvalid].t = "Object"
                           THEN PartialRow(Values[FirstInvalid], FirstNested(Values[FirstInvalid]))
                           ELSE <<>>)
       /\ FirstInvalid > Len(Values) => out = ExpectedHeader \o ExpectedRows(pos)

C2_Witness ==
  /\ pc = "done" /\ Decodable /\ Len(Values) = 2
  /\ ValidRecord(Values[1]) /\ Values[2].t # "Object" /\ pos = 1

\* the record lines written so far, and the partial line of a failed row
BodyWritten ==
  IF pos = 0 /\ err.kind # "invalid column" THEN <<>>
  ELSE ExpectedRows(pos)
         \o (IF err.kind = "invalid column"
             THEN PartialRow(Values[pos + 1], FirstNested(Values[pos + 1]))
             ELSE <<>>)

\* C3: with show_headers, a run that writes a record line has written the
\* header line (the column names joined by the separator, then a newline)
\* once, first; without show_headers, no header is written.
C3_HeaderOnceFirst ==
  /\ (args.show_headers /\ (pos >= 1 \/ pc = "loop")) =>
       /\ Len(out) >= Len(HeaderLine)
       /\ SubSeq(out, 1, Len(HeaderLine)) = HeaderLine
       /\ SubSeq(out, Len(HeaderLine) + 1, Len(out)) = BodyWritten
  /\ ~args.show_headers => out = BodyWritten

C3_Witness ==
  /\ args.show_headers /\ pc = "done" /\ pos = 2 /\ err = NoErr /\ NCols = 2

\* C4: the raw flag forces show_headers to false, so that no header line is
\* written, whether or not no-headers was given.
C4_RawForcesNoHeaders ==
  (matches.RAW /\ pc = "done") => (~args.show_headers /\ out = BodyWritten)

\* C5: the invalid-column error of a nested projected value names the
\* offending column: it carries the column's name from config.columns.
C5_ErrorNamesColumn ==
  err.kind = "invalid column" =>
    \E k \in 1..NCols :
      /\ ~IsScalar(FieldOf(Values[pos + 1], k))
      /\ err.text = args.columns[k]

\* C6: in single-document mode an input that is one JSON value other than an
\* Array fails with "root object is not an array" with nothing written, not
\* even the header.
C6_NonArrayRootWritesNothing ==
  (~args.no_root /\ Len(docs) = 1 /\ docs[1].t \notin {"Array", "Malformed"}) =>
    /\ out = <<>>
    /\ pos = 0
    /\ pc # "loop"
    /\ pc = "done" => err.kind = "root object is not an array"

C6_Witness ==
  /\ ~args.no_root /\ Len(docs) = 1 /\ docs[1].t = "Object"
  /\ args.show_headers /\ pc = "done"

\* the record with Null in place of every projected field it lacks
NullFilled(e) ==
  [e EXCEPT !.f = [c \in DOMAIN e.f |-> IF e.f[c].t = "Absent" THEN FNull ELSE e.f[c]]]

HasAbsent(e) == \E k \in 1..NCols : FieldOf(e, k).t = "Absent"

\* C7: a row of an Object lacking a requested column is written as if the
\* field were Null: an empty field there, the row in full, no error, no skip.
C7_AbsentIsNull ==
  [][(AtElement /\ Cur.t = "Object" /\ HasAbsent(Cur)) =>
       /\ Appended = print_line(NullFilled(Cur), args).out
       /\ err' = print_line(NullFilled(Cur), args).err
       /\ ValidRecord(Cur) =>
            /\ err' = NoErr
            /\ pos' = pos + 1
            /\ Appended = ExpectedRow(Cur)
            /\ \A k \in 1..NCols : FieldOf(Cur, k).t = "Absent" => ExpectedField(FieldOf(Cur, k)) = <<>>]_vars

C7_Witness ==
  /\ pc = "done" /\ err = NoErr /\ pos = 1 /\ NCols = 2 /\ Decodable
  /\ FieldOf(Values[1], 1).t = "Absent" /\ FieldOf(Values[1], 2).t = "Number"

\* the length of the field written for a scalar
FieldLen(v) ==
  CASE v.t = "String" -> IF args.raw THEN Len(v.s) ELSE Len(v.s) + CountQ(v.s) + 2
    [] v.t = "Bool" -> IF v.b THEN 4 ELSE 5
    [] v.t = "Number" -> Len(NumberDisplay(v.n))
    [] OTHER -> 0

RECURSIVE FieldOffset(_, _)
FieldOffset(e, k) ==
  IF k = 1 THEN 0
  ELSE FieldOffset(e, k - 1) + FieldLen(FieldOf(e, k - 1)) + Len(args.separator)

\* the field of column k in the line written for e
FieldAt(e, k, line) ==
  SubSeq(line, FieldOffset(e, k) + 1, FieldOffset(e, k) + FieldLen(FieldOf(e, k)))

\* C8: a String field is written, when raw is false, as a quote, the string
\* with every embedded quote doubled, and a quote, so that unquoting recovers
\* it; when raw is true, as the string itself, unchanged.
C8_StringField ==
  [][(AtElement /\ ValidRecord(Cur)) =>
       /\ Len(Appended) = FieldOffset(Cur, NCols) + FieldLen(FieldOf(Cur, NCols)) + 1
       /\ \A k \in 1..NCols :
            FieldOf(Cur, k).t = "String" =>
              LET s == FieldOf(Cur, k).s
                  w == FieldAt(Cur, k, Appended)
              IN  IF args.raw THEN w = s
                  ELSE /\ Len(w) = Len(s) + CountQ(s) + 2
                       /\ w[1] = Q
                       /\ w[Len(w)] = Q
                       /\ CountQ(w) = 2 * CountQ(s) + 2
                       /\ Unquote(w) = s]_vars

C8_Witness ==
  /\ pc = "done" /\ err = NoErr /\ pos = 1 /\ ~args.raw /\ Decodable
  /\ \E k \in 1..NCols :
       FieldOf(Values[1], k).t = "String" /\ FieldOf(Values[1], k).s = <<"x", Q>>

\* the documents are k valid records and then malformed bytes
RecordsThenMalformed(k) ==
  /\ k < Len(docs)
  /\ docs[k + 1].t = "Malformed"
  /\ \A i \in 1..k : ValidRecord(docs[i])

\* C9: in no-root mode, k valid records followed by a malformed value give the
\* header (if enabled) and exactly k record lines, in order, before the run
\* fails with the parse error at the pull of value k+1; in single-document
\* mode the same input fails with nothing written.
C9_StreamsBeforeParseError ==
  \A k \in 0..Len(docs) :
    RecordsThenMalformed(k) =>
      IF args.no_root
      THEN /\ pc = "loop" =>
                /\ pos <= k
                /\ out = ExpectedHeader \o Flatten([i \in 1..pos |-> ExpectedRow(docs[i])])
           /\ pc = "done" =>
                /\ err = ParseErr
                /\ pos = k
                /\ out = ExpectedHeader \o Flatten([i \in 1..k |-> ExpectedRow(docs[i])])
      ELSE /\ out = <<>>
           /\ pos = 0
           /\ pc # "loop"
           /\ pc = "done" => err = ParseErr

C9_Witness ==
  /\ args.no_root /\ args.show_headers /\ pc = "done" /\ pos = 1
  /\ RecordsThenMalformed(1) /\ err = ParseErr

\* C10: when a row fails with an invalid-column error at column k, the fields
\* of the columns before k, each followed by the separator, are already
\* written, no newline ends the row, and that is the end of the output: a
\* partial line whenever k is not the first column.
C10_PartialRowOnInvalidColumn ==
  (err.kind = "invalid column") =>
    /\ pc = "done"
    /\ HasValues
    /\ pos < Len(Values)
    /\ Values[pos + 1].t = "Object"
    /\ LET e == Values[pos + 1]
           k == FirstNested(e)
       IN  /\ k <= NCols
           /\ out = ExpectedHeader \o ExpectedRows(pos) \o PartialRow(e, k)
           /\ k > 1 =>
                /\ Len(out) >= Len(args.separator)
                /\ SubSeq(out, Len(out) - Len(args.separator) + 1, Len(out)) = args.separator

C10_Witness ==
  /\ err.kind = "invalid column" /\ pc = "done" /\ pos = 1 /\ HasValues
  /\ pos < Len(Values) /\ FirstNested(Values[pos + 1]) = 2

====
